---- MODULE Spec2Model ----
(***************************************************************************)
(* A model of the sand-sim engine (sim-core): the Simulation struct, its   *)
(* public operations (new, set_cell, paint_circle, clear, step), the       *)
(* per-cell view SimAPI (get, set, clear_here, try_move, try_move_into)    *)
(* and the material behaviours (update_sand, update_water).                *)
(*                                                                         *)
(* The record `sim` holds the fields of the struct.  Operators that model  *)
(* code taking `&mut self` take a machine record m (the struct's fields    *)
(* plus the instrumentation fields log and acc) and return the machine     *)
(* after the call.                                                         *)
(***************************************************************************)
EXTENDS Integers, Sequences, FiniteSets, TLC

(* ------------------------------------------------------------------ *)
(* Bounds of the model                                                  *)
(* ------------------------------------------------------------------ *)
\* largest width / height / number of cells of a grid that `new` is given
MaxW == 2
MaxH == 5
MaxCells == 6
\* number of set_cell / paint_circle / clear calls in one behaviour
MaxWrites == 2
\* number of step calls in one behaviour, and the largest `ticks` argument
MaxSteps == 2
\* number of calls of any kind in one behaviour
MaxCalls == 3
MaxTicks == 2
\* largest radius handed to paint_circle
MaxRadius == 1
\* material ids handed to set_cell / paint_circle are 0..MaxId (5 is an unknown id)
MaxId == 5
\* number of ticks that "within a bounded number of ticks" is read as
SinkHorizon == 6
\* number of ticks of a long run (one more than the modulus of generation), and
\* the largest grid a long run is made on
WrapHorizon == 257
WrapCells == 2

(* ------------------------------------------------------------------ *)
(* Program constants                                                    *)
(* ------------------------------------------------------------------ *)
\* generation and clock are u8: all arithmetic on them wraps at 256
U8 == 256

\* rng: 0xA5A5_1234_89AB_CDEF, as 8 bytes, least significant first
Seed == <<239, 205, 171, 137, 52, 18, 165, 165>>

\* 2685821657736338717 = 0x2545F4914F6CDD1D, as 8 bytes, least significant first
Mult == <<29, 221, 108, 79, 145, 244, 69, 37>>

(* ------------------------------------------------------------------ *)
(* 64-bit words: a word is a tuple of 8 bytes (little endian); shifts   *)
(* and xors are computed byte by byte.                                  *)
(* ------------------------------------------------------------------ *)
RECURSIVE Pow2(_)
Pow2(n) == IF n = 0 THEN 1 ELSE 2 * Pow2(n - 1)

\* bitwise xor of two naturals below 2^n
RECURSIVE BitXor(_, _, _)
BitXor(a, b, n) ==
    IF n = 0 THEN 0
    ELSE ((a + b) % 2) + 2 * BitXor(a \div 2, b \div 2, n - 1)

\* a ^ b for two bytes, tabulated
XorByte == [a \in 0..255 |-> [b \in 0..255 |-> BitXor(a, b, 8)]]

\* byte k of a word; the bytes beyond either end are zero
Byte(x, k) == IF k \in 1..8 THEN x[k] ELSE 0

\* x << n and x >> n on u64 (bits shifted out are lost), n = 8q + r
ShlByte(x, q, r, k) ==
    ((Byte(x, k - q) * Pow2(r)) % 256) + (Byte(x, k - q - 1) \div Pow2(8 - r))
ShrByte(x, q, r, k) ==
    (Byte(x, k + q) \div Pow2(r)) + ((Byte(x, k + q + 1) * Pow2(8 - r)) % 256)

\* x ^ (x << n) and x ^ (x >> n); SubSeq yields the word as a tuple of its
\* eight byte values
XorShl(x, n) == SubSeq([k \in 1..8 |-> XorByte[x[k]][ShlByte(x, n \div 8, n % 8, k)]], 1, 8)
XorShr(x, n) == SubSeq([k \in 1..8 |-> XorByte[x[k]][ShrByte(x, n \div 8, n % 8, k)]], 1, 8)

\* column k of the schoolbook product of two 8-byte words
RECURSIVE MulColumn(_, _, _, _)
MulColumn(x, c, k, i) ==
    IF i > k THEN 0 ELSE x[i + 1] * c[k - i + 1] + MulColumn(x, c, k, i + 1)

\* x.wrapping_mul(c): the low 8 bytes of the product
RECURSIVE MulFrom(_, _, _, _)
MulFrom(x, c, k, carry) ==
    IF k > 7 THEN <<>>
    ELSE LET t == MulColumn(x, c, k, 0) + carry
         IN  <<t % 256>> \o MulFrom(x, c, k + 1, t \div 256)

wrapping_mul(x, c) == MulFrom(x, c, 0, 0)

\* rng_next: the new rng word and the u32 it returns (4 bytes, little endian);
\* each statement's value of x is computed once and handed to the next
rng_next(rng) ==
    LET x1 == {XorShl(x, 12) : x \in {rng}}
        x2 == {XorShr(x, 25) : x \in x1}
        x3 == {XorShl(x, 27) : x \in x2}
    IN  CHOOSE r \in {[rng |-> x, out |-> SubSeq(wrapping_mul(x, Mult), 5, 8)] : x \in x3} : TRUE

\* r % 4 of a u32 r: decided by its low byte
U32Mod4(r) == r[1] % 4

\* ((generation as u32) ^ r) & 1 == 0: only the low bytes reach bit 0
LeftFirst(gen, r) == BitXor(gen, r[1], 8) % 2 = 0

(* ------------------------------------------------------------------ *)
(* Materials and cells                                                  *)
(* ------------------------------------------------------------------ *)
Material == {"Empty", "Wall", "Sand", "Water", "Stone"}

from_id(n) ==
    CASE n = 1 -> "Wall"
      [] n = 2 -> "Sand"
      [] n = 3 -> "Water"
      [] n = 4 -> "Stone"
      [] OTHER -> "Empty"

id(mat) ==
    CASE mat = "Empty" -> 0
      [] mat = "Wall"  -> 1
      [] mat = "Sand"  -> 2
      [] mat = "Water" -> 3
      [] mat = "Stone" -> 4

Cell(mat, clock) == [material |-> mat, ra |-> 0, rb |-> 0, clock |-> clock]

empty_with_clock(clock) == Cell("Empty", clock)

wrapping_add(a, b) == (a + b) % U8

wrapping_sub(a, b) == (a - b + U8) % U8

Clamp(v) == IF v < 0 THEN 0 ELSE IF v > 255 THEN 255 ELSE v

\* i16 division truncates toward zero
TruncDiv(a, b) == IF a >= 0 THEN a \div b ELSE -((-a) \div b)

color_of(s, ra) ==
    LET base == CASE s = "Empty" -> <<0, 0, 0, 255>>
                  [] s = "Wall"  -> <<120, 120, 120, 255>>
                  [] s = "Stone" -> <<90, 90, 90, 255>>
                  [] s = "Sand"  -> <<216, 180, 90, 255>>
                  [] s = "Water" -> <<64, 120, 220, 255>>
        brightness == TruncDiv(ra - 128, 4)
    IN  IF s = "Empty" THEN base
        ELSE <<Clamp(base[1] + brightness), Clamp(base[2] + brightness),
               Clamp(base[3] + brightness), base[4]>>

(* ------------------------------------------------------------------ *)
(* Simulation: private helpers                                          *)
(* ------------------------------------------------------------------ *)
\* (y as u32 * width + x as u32) as usize, for coordinates that are in bounds
idx(width, x, y) == y * width + x

\* in_bounds without its lower-bound tests
in_bounds_no_lower(m, x, y) == x < m.width /\ y < m.height

in_bounds(m, x, y) == x >= 0 /\ y >= 0 /\ x < m.width /\ y < m.height

\* cells[i]: indexing a Vec outside 0..len panics; the read is recorded in acc
\* by the caller and yields the Trap cell, which no material test accepts
At(m, i) == IF i \in DOMAIN m.cells THEN m.cells[i] ELSE Cell("Trap", 0)

\* cells[i] = v
Put(m, i, v) ==
    IF i \in DOMAIN m.cells
    THEN [m EXCEPT !.cells[i] = v, !.acc = @ \cup {i}, !.wrote[i] = m.generation]
    ELSE [m EXCEPT !.acc = @ \cup {i}]

\* one entry of the log: what happened, during which generation, at which cell
\* (src), to which cell (dst), the material acting, and the generation during
\* which the cell at src had last been written
Ev(m, kind, src, dst, mat) ==
    [gen |-> m.generation, kind |-> kind, src |-> src, dst |-> dst, mat |-> mat,
     wrote |-> IF src \in DOMAIN m.wrote THEN m.wrote[src] ELSE 0]

Note(m, kind, src, dst, mat) ==
    [m EXCEPT !.log = Append(@, Ev(m, kind, src, dst, mat))]

write_pixels(m) ==
    [m EXCEPT !.pixels =
        [p \in 0..(4 * m.width * m.height - 1) |->
            color_of(m.cells[p \div 4].material, m.cells[p \div 4].ra)[(p % 4) + 1]]]

(* ------------------------------------------------------------------ *)
(* SimAPI: the view bound to (x, y)                                     *)
(* ------------------------------------------------------------------ *)
get(m, x, y, dx, dy) ==
    LET nx == x + dx
        ny == y + dy
    IN  IF ~in_bounds(m, nx, ny)
        THEN Cell("Wall", m.generation)
        ELSE At(m, idx(m.width, nx, ny))

\* the machine after get: the index it read, if any, is recorded
got(m, x, y, dx, dy) ==
    IF ~in_bounds(m, x + dx, y + dy) THEN m
    ELSE [m EXCEPT !.acc = @ \cup {idx(m.width, x + dx, y + dy)}]

\* the clock every write made during a tick (or between ticks) carries
stamp(generation) == wrapping_add(generation, 1)

set(m, x, y, dx, dy, v) ==
    LET nx == x + dx
        ny == y + dy
    IN  IF ~in_bounds(m, nx, ny) THEN m
        ELSE Put(m, idx(m.width, nx, ny), [v EXCEPT !.clock = stamp(m.generation)])

\* clear_here that leaves the source cell as it is
clear_here_keeps(m, x, y) == m

clear_here(m, x, y) ==
    Put(m, idx(m.width, x, y), empty_with_clock(stamp(m.generation)))

\* try_move testing the destination against Wall instead of Empty
try_move_wall(m, x, y, dx, dy, cell) ==
    IF get(m, x, y, dx, dy).material = "Wall"
    THEN [ok |-> TRUE,
          m  |-> clear_here(set(got(Note(m, "move", idx(m.width, x, y),
                                         idx(m.width, x + dx, y + dy), cell.material),
                                    x, y, dx, dy), x, y, dx, dy, cell), x, y)]
    ELSE [ok |-> FALSE, m |-> got(m, x, y, dx, dy)]

try_move(m, x, y, dx, dy, cell) ==
    IF get(m, x, y, dx, dy).material = "Empty"
    THEN [ok |-> TRUE,
          m  |-> clear_here(set(got(Note(m, "move", idx(m.width, x, y),
                                         idx(m.width, x + dx, y + dy), cell.material),
                                    x, y, dx, dy), x, y, dx, dy, cell), x, y)]
    ELSE [ok |-> FALSE, m |-> got(m, x, y, dx, dy)]

\* try_move_into that never finds the destination's material allowed
try_move_into_never(m, x, y, dx, dy, cell, allowed_materials) ==
    [ok |-> FALSE, m |-> got(m, x, y, dx, dy)]

try_move_into(m, x, y, dx, dy, cell, allowed_materials) ==
    LET target == get(m, x, y, dx, dy)
    IN  IF target.material \in allowed_materials
        THEN LET target_cell == [target EXCEPT !.clock = stamp(m.generation)]
                 m0 == Note(m, "swap", idx(m.width, x, y),
                            idx(m.width, x + dx, y + dy), cell.material)
                 m1 == set(got(m0, x, y, dx, dy), x, y, dx, dy, cell)
             IN  [ok |-> TRUE, m |-> Put(m1, idx(m.width, x, y), target_cell)]
        ELSE [ok |-> FALSE, m |-> got(m, x, y, dx, dy)]

rand_u32(m) ==
    LET r == rng_next(m.rng)
    IN  [out |-> r.out, m |-> Note([m EXCEPT !.rng = r.rng], "draw", 0, 0, "Empty")]

(* ------------------------------------------------------------------ *)
(* Material behaviours                                                  *)
(* ------------------------------------------------------------------ *)
\* the same run in which try_move_into is allowed to swap with Sand as well
RECURSIVE TryEach_into_sand(_, _, _, _, _, _)
TryEach_into_sand(m, x, y, cell, attempts, k) ==
    IF k > Len(attempts) THEN [ok |-> FALSE, m |-> m]
    ELSE LET a == attempts[k]
             r == IF a.into
                  THEN try_move_into(m, x, y, a.dx, a.dy, cell, {"Water", "Sand"})
                  ELSE try_move(m, x, y, a.dx, a.dy, cell)
         IN  IF r.ok THEN r ELSE TryEach_into_sand(r.m, x, y, cell, attempts, k + 1)

\* a run of `if api.try_move..(..) { return; }` statements: the attempts are
\* made in order and the first that succeeds ends the run
RECURSIVE TryEach(_, _, _, _, _, _)
TryEach(m, x, y, cell, attempts, k) ==
    IF k > Len(attempts) THEN [ok |-> FALSE, m |-> m]
    ELSE LET a == attempts[k]
             r == IF a.into
                  THEN try_move_into(m, x, y, a.dx, a.dy, cell, {"Water"})
                  ELSE try_move(m, x, y, a.dx, a.dy, cell)
         IN  IF r.ok THEN r ELSE TryEach(r.m, x, y, cell, attempts, k + 1)

Mv(dx, dy) == [dx |-> dx, dy |-> dy, into |-> FALSE]
Into(dx, dy) == [dx |-> dx, dy |-> dy, into |-> TRUE]

\* update_sand that tries the swap straight down before the diagonal moves
update_sand_swap_first(m, x, y, cell) ==
    LET down == try_move(m, x, y, 0, 1, cell)
    IN  IF down.ok THEN down.m
        ELSE LET d == rand_u32(down.m)
                 f == IF LeftFirst(m.generation, d.out) THEN -1 ELSE 1
             IN  TryEach(d.m, x, y, cell,
                         <<Into(0, 1), Mv(f, 1), Mv(-f, 1),
                           Into(f, 1), Into(-f, 1)>>, 1).m

update_sand(m, x, y, cell) ==
    LET down == try_move(m, x, y, 0, 1, cell)
    IN  IF down.ok THEN down.m
        ELSE LET d == rand_u32(down.m)
                 f == IF LeftFirst(m.generation, d.out) THEN -1 ELSE 1
             IN  TryEach(d.m, x, y, cell,
                         <<Mv(f, 1), Mv(-f, 1),
                           Into(0, 1), Into(f, 1), Into(-f, 1)>>, 1).m

is_pool(mat) == mat = "Wall" \/ mat = "Water"

\* update_water that takes every cell for submerged
update_water_submerged(m, x, y, cell) ==
    LET v == rand_u32(m)
    IN  IF U32Mod4(v.out) = 0 THEN v.m
        ELSE
        LET down == try_move(v.m, x, y, 0, 1, cell)
        IN  IF down.ok THEN down.m
            ELSE
            LET d == rand_u32(got(down.m, x, y, 0, -1))
                f == IF LeftFirst(m.generation, d.out) THEN -1 ELSE 1
            IN  TryEach(d.m, x, y, cell,
                        <<Mv(f, 1), Mv(-f, 1), Mv(f, 0), Mv(-f, 0)>>, 1).m

\* update_water whose final lateral attempts, made outside a pool, swap with Water
update_water_pool_swaps(m, x, y, cell) ==
    LET v == rand_u32(m)
    IN  IF U32Mod4(v.out) = 0 THEN v.m
        ELSE
        LET down == try_move(v.m, x, y, 0, 1, cell)
        IN  IF down.ok THEN down.m
            ELSE
            LET m1 == got(down.m, x, y, 0, -1)
                is_surface == get(m1, x, y, 0, -1).material = "Empty"
                d == rand_u32(m1)
                f == IF LeftFirst(m.generation, d.out) THEN -1 ELSE 1
                primary == TryEach(d.m, x, y, cell,
                               IF is_surface
                               THEN <<Mv(f, 0), Mv(-f, 0), Mv(f, 1), Mv(-f, 1)>>
                               ELSE <<Mv(f, 1), Mv(-f, 1), Mv(f, 0), Mv(-f, 0)>>, 1)
            IN  IF primary.ok THEN primary.m
                ELSE
                LET m2 == got(got(got(primary.m, x, y, 0, 1), x, y, -1, 0), x, y, 1, 0)
                    is_in_pool == /\ is_pool(get(m2, x, y, 0, 1).material)
                                  /\ is_pool(get(m2, x, y, -1, 0).material)
                                  /\ is_pool(get(m2, x, y, 1, 0).material)
                IN  IF is_in_pool THEN m2
                    ELSE TryEach(m2, x, y, cell, <<Into(f, 0), Into(-f, 0)>>, 1).m

update_water(m, x, y, cell) ==
    LET v == rand_u32(m)
    IN  IF U32Mod4(v.out) = 0 THEN v.m
        ELSE
        LET down == try_move(v.m, x, y, 0, 1, cell)
        IN  IF down.ok THEN down.m
            ELSE
            LET m1 == got(down.m, x, y, 0, -1)
                is_surface == get(m1, x, y, 0, -1).material = "Empty"
                d == rand_u32(m1)
                f == IF LeftFirst(m.generation, d.out) THEN -1 ELSE 1
                primary == TryEach(d.m, x, y, cell,
                               IF is_surface
                               THEN <<Mv(f, 0), Mv(-f, 0), Mv(f, 1), Mv(-f, 1)>>
                               ELSE <<Mv(f, 1), Mv(-f, 1), Mv(f, 0), Mv(-f, 0)>>, 1)
            IN  IF primary.ok THEN primary.m
                ELSE
                LET m2 == got(got(got(primary.m, x, y, 0, 1), x, y, -1, 0), x, y, 1, 0)
                    is_in_pool == /\ is_pool(get(m2, x, y, 0, 1).material)
                                  /\ is_pool(get(m2, x, y, -1, 0).material)
                                  /\ is_pool(get(m2, x, y, 1, 0).material)
                IN  IF is_in_pool THEN m2
                    ELSE TryEach(m2, x, y, cell, <<Mv(f, 0), Mv(-f, 0)>>, 1).m

\* update_cell that hands Stone to the behaviour of Sand
update_cell_stone_falls(m, x, y, cell) ==
    CASE cell.material \in {"Sand", "Stone"} -> update_sand(m, x, y, cell)
      [] cell.material = "Water" -> update_water(m, x, y, cell)
      [] OTHER -> m

update_cell(m, x, y, cell) ==
    CASE cell.material = "Sand"  -> update_sand(m, x, y, cell)
      [] cell.material = "Water" -> update_water(m, x, y, cell)
      [] OTHER -> m

(* ------------------------------------------------------------------ *)
(* The stepping engine                                                  *)
(* ------------------------------------------------------------------ *)
\* the test update_at makes before anything else
clock_skip(cell, generation) == wrapping_sub(cell.clock, generation) = 0

update_at(m, x, y) ==
    LET i == idx(m.width, x, y)
        cell == m.cells[i]
    IN  IF clock_skip(cell, m.generation) THEN Note(m, "skip_clock", i, i, cell.material)
        ELSE IF cell.material = "Empty" THEN Note(m, "skip_empty", i, i, cell.material)
        ELSE update_cell(Note(m, "dispatch", i, i, cell.material), x, y, cell)

\* the columns of a row in increasing order, whatever the parity
RowOrder_ascending(w, lr) == [k \in 1..w |-> k - 1]

\* the columns of one row in the order the scan visits them
RowOrder(w, lr) == [k \in 1..w |-> IF lr THEN k - 1 ELSE w - k]

RECURSIVE ScanRow(_, _, _, _)
ScanRow(m, y, xs, k) ==
    IF k > Len(xs) THEN m ELSE ScanRow(update_at(m, xs[k], y), y, xs, k + 1)

\* for y in (0..h).rev()
RECURSIVE ScanRows(_, _, _)
ScanRows(m, y, xs) ==
    IF y < 0 THEN m ELSE ScanRows(ScanRow(m, y, xs, 1), y - 1, xs)

\* one iteration of the loop of step
tick(m) ==
    LET m1 == [m EXCEPT !.generation = wrapping_add(m.generation, 1)]
        lr == (m1.generation % 2) = 0
    IN  ScanRows(m1, m1.height - 1, RowOrder(m1.width, lr))

RECURSIVE ticks_loop(_, _)
ticks_loop(m, ticks) == IF ticks = 0 THEN m ELSE ticks_loop(tick(m), ticks - 1)

\* step without its render pass
step_no_render(m, ticks) == [ticks_loop(m, ticks) EXCEPT !.frame = @ + 1]

step(m, ticks) ==
    write_pixels([ticks_loop(m, ticks) EXCEPT !.frame = @ + 1])

count_mat(m, material_id) ==
    Cardinality({i \in DOMAIN m.cells : id(m.cells[i].material) = material_id})

\* the entry a call of set_cell leaves in the log: its arguments
Called(m, x, y, material_id) ==
    [m EXCEPT !.log = Append(@, [gen |-> m.generation, kind |-> "set_cell",
                                 x |-> x, y |-> y, material_id |-> material_id])]

\* set_cell that tests only whether the index lies within the vector
set_cell_by_index(m, x, y, material_id) ==
    IF idx(m.width, x, y) \notin DOMAIN m.cells THEN Called(m, x, y, material_id)
    ELSE LET i == idx(m.width, x, y)
             material == from_id(material_id)
             c == color_of(material, 0)
         IN  [Called(m, x, y, material_id) EXCEPT
                       !.cells[i] = Cell(material, stamp(m.generation)),
                       !.wrote[i] = m.generation,
                       !.pixels = [p \in DOMAIN @ |->
                                      IF p \div 4 = i THEN c[(p % 4) + 1] ELSE @[p]]]

set_cell(m, x, y, material_id) ==
    IF x >= m.width \/ y >= m.height THEN Called(m, x, y, material_id)
    ELSE LET i == idx(m.width, x, y)
             material == from_id(material_id)
             c == color_of(material, 0)
         IN  [Called(m, x, y, material_id) EXCEPT
                       !.cells[i] = Cell(material, stamp(m.generation)),
                       !.wrote[i] = m.generation,
                       !.pixels = [p \in DOMAIN @ |->
                                      IF p \div 4 = i THEN c[(p % 4) + 1] ELSE @[p]]]

paint_circle(m, cx, cy, radius, material_id) ==
    LET mat == from_id(material_id)
        hit == {idx(m.width, cx + d[1], cy + d[2]) :
                   d \in {e \in ((-radius)..radius) \X ((-radius)..radius) :
                             /\ e[1] * e[1] + e[2] * e[2] <= radius * radius
                             /\ in_bounds(m, cx + e[1], cy + e[2])}}
    IN  write_pixels([m EXCEPT
            !.cells = [i \in DOMAIN @ |->
                          IF i \in hit THEN Cell(mat, stamp(m.generation)) ELSE @[i]],
            !.wrote = [i \in DOMAIN @ |-> IF i \in hit THEN m.generation ELSE @[i]]])

clear(m) ==
    write_pixels([m EXCEPT
        !.cells = [i \in DOMAIN @ |-> empty_with_clock(stamp(m.generation))],
        !.wrote = [i \in DOMAIN @ |-> m.generation]])

new(width, height) ==
    LET len == width * height
    IN  write_pixels(
            [width |-> width, height |-> height,
             cells |-> [i \in 0..(len - 1) |-> Cell("Empty", 0)],
             pixels |-> [p \in 0..(4 * len - 1) |-> 0],
             generation |-> 0, rng |-> Seed, frame |-> 0,
             log |-> <<>>, acc |-> {},
             wrote |-> [i \in 0..(len - 1) |-> 0]])

(* ------------------------------------------------------------------ *)
(* The state machine                                                    *)
(* ------------------------------------------------------------------ *)
VARIABLES
    sim,        \* the fields of the Simulation struct
    log,        \* instrumentation: what the last call did, in order
    acc,        \* instrumentation: the indices of cells the last call used
    wrote,      \* history: per cell, the generation during which it was last written
    writes      \* history: the number of set_cell/paint_circle/clear calls made

vars == <<sim, log, acc, wrote, writes>>

\* the machine a call starts from, and the struct it leaves
Machine(s) == [width |-> s.width, height |-> s.height, cells |-> s.cells,
               pixels |-> s.pixels, generation |-> s.generation, rng |-> s.rng,
               frame |-> s.frame, log |-> <<>>, acc |-> {}, wrote |-> wrote]

Struct(m) == [width |-> m.width, height |-> m.height, cells |-> m.cells,
              pixels |-> m.pixels, generation |-> m.generation, rng |-> m.rng,
              frame |-> m.frame]

Dims == {d \in (1..MaxW) \X (1..MaxH) : d[1] * d[2] <= MaxCells}

Init ==
    /\ \E d \in Dims : sim = Struct(new(d[1], d[2]))
    /\ log = <<>>
    /\ acc = {}
    /\ wrote = [i \in DOMAIN sim.cells |-> 0]
    /\ writes = 0

Done(m) ==
    /\ sim' = Struct(m)
    /\ log' = m.log
    /\ acc' = m.acc
    /\ wrote' = m.wrote

Write(m) ==
    /\ writes < MaxWrites
    /\ writes + sim.frame < MaxCalls
    /\ Done(m)
    /\ writes' = writes + 1

SetCell ==
    \E x \in 0..sim.width, y \in 0..sim.height, n \in 0..MaxId :
        Write(set_cell(Machine(sim), x, y, n))

PaintCircle ==
    \E cx \in 0..sim.width, cy \in 0..sim.height, r \in 0..MaxRadius, n \in 0..MaxId :
        Write(paint_circle(Machine(sim), cx, cy, r, n))

Clear == Write(clear(Machine(sim)))

Step ==
    \E ticks \in 0..MaxTicks :
        /\ sim.frame < MaxSteps
        /\ writes + sim.frame < MaxCalls
        /\ Done(step(Machine(sim), ticks))
        /\ UNCHANGED writes

Next == SetCell \/ PaintCircle \/ Clear \/ Step

Spec == Init /\ [][Next]_vars

(* ------------------------------------------------------------------ *)
(* Vocabulary of the properties                                         *)
(* ------------------------------------------------------------------ *)
\* the transition is a call of step (the only operation that advances frame)
IsStep == sim'.frame # sim.frame

Col(s, i) == i % s.width
Row(s, i) == i \div s.width

\* the entries of a log that relocate cells
Relocations(l) == {k \in DOMAIN l : l[k].kind \in {"move", "swap"}}

\* the slots a relocation brings a cell to, and the slots it takes a cell from
\* (a swap moves two cells: the acting one to dst, the displaced one to src)
Arrivals(e) == IF e.kind = "swap" THEN {e.src, e.dst} ELSE {e.dst}
Departures(e) == IF e.kind = "swap" THEN {e.src, e.dst} ELSE {e.src}

Holds(s, mat) == {i \in DOMAIN s.cells : s.cells[i].material = mat}

(* ------------------------------------------------------------------ *)
(* C1  Mass conservation                                                *)
(* ------------------------------------------------------------------ *)
\* C1: a call of step leaves count_mat of Wall, Sand, Water and Stone
\* (ids 1..4) exactly as it found them.
C1_MassConservation ==
    [][IsStep => \A n \in 1..4 : count_mat(sim', n) = count_mat(sim, n)]_vars

\* a step in which try_move relocated one cell and try_move_into swapped two
C1_Witness ==
    /\ \E k \in DOMAIN log : log[k].kind = "move"
    /\ \E k \in DOMAIN log : log[k].kind = "swap"

(* ------------------------------------------------------------------ *)
(* C2  No double movement                                               *)
(* ------------------------------------------------------------------ *)
\* C2: within one tick (one generation value) no cell is relocated twice, and
\* a cell that was relocated is not dispatched again later in that scan.
C2_NoDoubleMovement ==
    \A j, k \in DOMAIN log :
        (j < k /\ log[j].gen = log[k].gen /\ j \in Relocations(log)) =>
            /\ k \in Relocations(log) => Arrivals(log[j]) \cap Departures(log[k]) = {}
            /\ log[k].kind = "dispatch" => log[k].src \notin Arrivals(log[j])

(* ------------------------------------------------------------------ *)
(* C8  Clock invariant                                                  *)
(* ------------------------------------------------------------------ *)
\* C8: every cell's clock is the value generation had when the cell was last
\* written, and is never the generation value that follows the current one.
C8_ClockInvariant ==
    \A i \in DOMAIN sim.cells :
        /\ sim.cells[i].clock = wrote[i]
        /\ sim.cells[i].clock # wrapping_add(sim.generation, 1)

(* ------------------------------------------------------------------ *)
(* C9  A cell written during tick g is processed in tick g+1            *)
(* ------------------------------------------------------------------ *)
\* C9: the clock check of update_at never skips a Sand or Water cell in the
\* tick that follows the generation during which the cell was last written
\* (moved or swapped in the tick before, or placed by set_cell before this
\* tick).
C9_ProcessedNextTick ==
    \A k \in DOMAIN log :
        (log[k].kind = "skip_clock" /\ log[k].mat \in {"Sand", "Water"}) =>
            log[k].gen # wrapping_add(log[k].wrote, 1)

(* ------------------------------------------------------------------ *)
(* C10  First writer wins                                               *)
(* ------------------------------------------------------------------ *)
\* C10: within one tick each slot is the destination of at most one successful
\* try_move or try_move_into.
C10_FirstWriterWins ==
    \A j, k \in Relocations(log) :
        (j < k /\ log[j].gen = log[k].gen) => log[j].dst # log[k].dst

(* ------------------------------------------------------------------ *)
(* C3  Settling                                                         *)
(* ------------------------------------------------------------------ *)
BottomRow(s) == {i \in DOMAIN s.cells : Row(s, i) = s.height - 1}

\* a simulation no tick has run on, holding a floor of Wall along the bottom
\* row, one Sand cell above it and nothing else
FreshFloorSand(s) ==
    /\ s.generation = 0
    /\ s.height >= 2
    /\ Holds(s, "Wall") = BottomRow(s)
    /\ Cardinality(Holds(s, "Sand")) = 1
    /\ Holds(s, "Water") = {}
    /\ Holds(s, "Stone") = {}

\* C3: from such a simulation, step(height) leaves the Sand cell directly on
\* the floor, and one more tick does not move it.
C3_Settling ==
    FreshFloorSand(sim) =>
        LET m == ticks_loop(Machine(sim), sim.height)
            p == CHOOSE i \in Holds(m, "Sand") : TRUE
        IN  /\ Row(sim, p) = sim.height - 2
            /\ Holds(tick(m), "Sand") = {p}

(* ------------------------------------------------------------------ *)
(* C5  Boundary solidity                                                *)
(* ------------------------------------------------------------------ *)
Abs(n) == IF n < 0 THEN -n ELSE n

\* C5: no call indexes the cell vector outside 0..width*height-1, and every
\* relocation goes from a cell of the grid to one of its neighbours in the
\* same row or the row below: nothing leaves the grid or wraps around an edge.
C5_BoundarySolidity ==
    /\ acc \subseteq DOMAIN sim.cells
    /\ \A k \in Relocations(log) :
        /\ log[k].src \in DOMAIN sim.cells
        /\ log[k].dst \in DOMAIN sim.cells
        /\ Abs(Col(sim, log[k].dst) - Col(sim, log[k].src)) <= 1
        /\ Row(sim, log[k].dst) - Row(sim, log[k].src) \in {0, 1}

\* a Sand or Water cell in the bottom-left corner of a grid at least 2 wide was
\* dispatched: its neighbours below and to the left are outside the grid
C5_Witness ==
    \E k \in DOMAIN log :
        /\ log[k].kind = "dispatch"
        /\ log[k].mat \in {"Sand", "Water"}
        /\ sim.width >= 2
        /\ log[k].src = idx(sim.width, 0, sim.height - 1)

(* ------------------------------------------------------------------ *)
(* C6  Sinking                                                          *)
(* ------------------------------------------------------------------ *)
\* the grid holds Sand at i, Water directly below it, and nothing else
SandOverWater(s, i) ==
    /\ i + s.width \in DOMAIN s.cells
    /\ Holds(s, "Sand") = {i}
    /\ Holds(s, "Water") = {i + s.width}
    /\ Holds(s, "Wall") = {}
    /\ Holds(s, "Stone") = {}

Exchanged(s, m, i) ==
    /\ Holds(m, "Water") = {i}
    /\ Holds(m, "Sand") = {i + s.width}

\* C6 as claimed: from Sand directly over Water in an otherwise empty grid,
\* some number of ticks up to SinkHorizon leaves the two exchanged.
C6_Sinking ==
    \A i \in DOMAIN sim.cells :
        SandOverWater(sim, i) =>
            \E n \in 1..SinkHorizon : Exchanged(sim, ticks_loop(Machine(sim), n), i)

\* C6 as amended: when the grid is one column wide and the Water lies in the
\* bottom row, two ticks leave the two exchanged.
C6_SinkingInColumn ==
    \A i \in DOMAIN sim.cells :
        (SandOverWater(sim, i) /\ sim.width = 1 /\ i + sim.width \in BottomRow(sim)) =>
            Exchanged(sim, ticks_loop(Machine(sim), 2), i)

\* a step has swapped the Sand of a one-column grid with the Water below it
C6_Witness ==
    /\ sim.width = 1
    /\ \E k \in DOMAIN log : log[k].kind = "swap" /\ log[k].mat = "Sand"
    /\ \E i \in BottomRow(sim) :
        /\ Holds(sim, "Sand") = {i}
        /\ Holds(sim, "Water") = {i - 1}
    /\ Holds(sim, "Wall") = {}
    /\ Holds(sim, "Stone") = {}

(* ------------------------------------------------------------------ *)
(* C7  Pool stability                                                   *)
(* ------------------------------------------------------------------ *)
WallAt(s, i, dx, dy) == get(s, Col(s, i), Row(s, i), dx, dy).material = "Wall"

\* a Water cell whose neighbours below, left and right are Wall
Pool3(s, i) ==
    /\ s.cells[i].material = "Water"
    /\ WallAt(s, i, 0, 1) /\ WallAt(s, i, -1, 0) /\ WallAt(s, i, 1, 0)

\* ... and whose two diagonal-down neighbours are Wall too
Pool5(s, i) == Pool3(s, i) /\ WallAt(s, i, -1, 1) /\ WallAt(s, i, 1, 1)

Touching(l, i) == {k \in Relocations(l) : l[k].src = i \/ l[k].dst = i}

\* the first relocation of log l that touches slot i takes the cell that was
\* at i to a slot of the same column
ColumnKept(s, l, i) ==
    \/ Touching(l, i) = {}
    \/ LET k == CHOOSE j \in Touching(l, i) : \A n \in Touching(l, i) : j <= n
           to == IF l[k].src = i THEN l[k].dst ELSE l[k].src
       IN  Col(s, to) = Col(s, i)

\* C7 as claimed: a step does not take a Water cell with Wall below, left and
\* right out of its column.
C7_PoolStability ==
    [][IsStep => \A i \in DOMAIN sim.cells :
                    Pool3(sim, i) => ColumnKept(sim, log', i)]_vars

\* C7 as amended: in a grid without Sand, a step does not move a Water cell
\* whose neighbours below, left, right and diagonally below are all Wall.
C7_EnclosedPoolStays ==
    [][IsStep => \A i \in DOMAIN sim.cells :
                    (Pool5(sim, i) /\ Holds(sim, "Sand") = {}) =>
                        /\ Touching(log', i) = {}
                        /\ sim'.cells[i].material = "Water"]_vars

\* such a Water cell, with a Wall cell of the grid to its right, was dispatched,
\* went past the viscosity draw and stayed
C7_Witness ==
    \E i \in DOMAIN sim.cells :
        /\ Pool5(sim, i)
        /\ Holds(sim, "Sand") = {}
        /\ Col(sim, i) + 1 < sim.width
        /\ i + 1 \in Holds(sim, "Wall")
        /\ \E k \in DOMAIN log :
            /\ log[k].kind = "dispatch" /\ log[k].src = i
            /\ k + 2 \in DOMAIN log
            /\ log[k + 1].kind = "draw" /\ log[k + 2].kind = "draw"

(* ------------------------------------------------------------------ *)
(* C11  set_cell is total                                               *)
(* ------------------------------------------------------------------ *)
\* the transition is a call of set_cell; its arguments are in the log
IsSetCell == Len(log') = 1 /\ log'[1].kind = "set_cell"

\* C11: set_cell with x >= width or y >= height changes no cell, no pixel,
\* neither generation nor rng; with coordinates in range it overwrites exactly
\* the cell at (x, y) with the material of the id (Empty when the id is not
\* one of 1..4), ra = rb = 0 and clock generation + 1 mod 256, and changes no
\* pixel byte but the four of that cell.
C11_SetCellTotal ==
    [][IsSetCell =>
        LET e == log'[1]
            i == e.y * sim.width + e.x
        IN  /\ sim'.generation = sim.generation
            /\ sim'.rng = sim.rng
            /\ DOMAIN sim'.cells = DOMAIN sim.cells
            /\ DOMAIN sim'.pixels = DOMAIN sim.pixels
            /\ IF e.x >= sim.width \/ e.y >= sim.height
               THEN sim'.cells = sim.cells /\ sim'.pixels = sim.pixels
               ELSE /\ \A j \in DOMAIN sim.cells \ {i} : sim'.cells[j] = sim.cells[j]
                    /\ id(sim'.cells[i].material)
                           = (IF e.material_id \in 1..4 THEN e.material_id ELSE 0)
                    /\ sim'.cells[i].ra = 0 /\ sim'.cells[i].rb = 0
                    /\ sim'.cells[i].clock = (sim.generation + 1) % 256
                    /\ \A p \in DOMAIN sim.pixels :
                           p \notin (4 * i)..(4 * i + 3) => sim'.pixels[p] = sim.pixels[p]]_vars

\* after a step, set_cell with an unknown id has emptied one cell of a grid
\* that holds other material
C11_Witness ==
    /\ Len(log) = 1 /\ log[1].kind = "set_cell"
    /\ log[1].x < sim.width /\ log[1].y < sim.height
    /\ log[1].material_id = MaxId
    /\ sim.generation > 0
    /\ \E j \in DOMAIN sim.cells : sim.cells[j].material \notin {"Empty"}

(* ------------------------------------------------------------------ *)
(* C12  Static materials                                                *)
(* ------------------------------------------------------------------ *)
Static == {"Wall", "Stone", "Empty"}

\* the entries of a log that record update_at reaching a cell
Visits == {"skip_clock", "skip_empty", "dispatch"}

\* C12: a call of step leaves the set of slots holding Wall and the set
\* holding Stone as they were; between the dispatch of a Wall or Stone cell
\* (or the visit of an Empty one) and the next visit nothing is drawn, moved
\* or swapped; no Wall, Stone or Empty cell is the acting cell of a
\* relocation; and update_cell applied to any such cell of the grid leaves
\* cells and rng as they are.
C12_StaticMaterials ==
    [][IsStep =>
        /\ Holds(sim', "Wall") = Holds(sim, "Wall")
        /\ Holds(sim', "Stone") = Holds(sim, "Stone")
        /\ \A k \in DOMAIN log' :
              (/\ log'[k].kind \in {"dispatch", "skip_empty"}
               /\ log'[k].mat \in Static
               /\ k + 1 \in DOMAIN log') => log'[k + 1].kind \in Visits
        /\ \A k \in Relocations(log') : log'[k].mat \notin Static
        /\ \A i \in DOMAIN sim.cells :
              sim.cells[i].material \in Static =>
                  LET m == update_cell(Machine(sim), Col(sim, i), Row(sim, i), sim.cells[i])
                  IN  m.cells = sim.cells /\ m.rng = sim.rng /\ m.log = <<>>]_vars

\* a step dispatched a Stone cell, and in the same step another cell was
\* relocated to the slot directly above it
C12_Witness ==
    \E k \in DOMAIN log :
        /\ log[k].kind = "dispatch" /\ log[k].mat = "Stone"
        /\ sim.cells[log[k].src].material = "Stone"
        /\ \E j \in Relocations(log) : log[j].dst = log[k].src - sim.width

(* ------------------------------------------------------------------ *)
(* C13  Scan order                                                      *)
(* ------------------------------------------------------------------ *)
IsVisit(e) == e.kind \in Visits

\* the slot visited k-th (k = 0, 1, ...) in the tick of generation g: rows from
\* the bottom up, columns ascending when g is even and descending when odd
Visited(s, g, k) ==
    LET row == s.height - 1 - (k \div s.width)
        col == IF g % 2 = 0 THEN k % s.width ELSE s.width - 1 - (k % s.width)
    IN  row * s.width + col

\* C13: the visits of a step are, tick after tick, one visit of every slot;
\* the t-th tick runs under generation (old generation + t) mod 256 and visits
\* the slots in the order Visited gives for that generation.
C13_ScanOrder ==
    [][IsStep =>
        LET v == SelectSeq(log', IsVisit)
            n == sim.width * sim.height
            t == (sim'.generation - sim.generation + U8) % U8
        IN  /\ Len(v) = t * n
            /\ \A k \in DOMAIN v :
                  /\ v[k].gen = (sim.generation + 1 + ((k - 1) \div n)) % U8
                  /\ v[k].src = Visited(sim, v[k].gen, (k - 1) % n)]_vars

\* a step of two ticks (one odd, one even generation) over a grid of two
\* columns and at least two rows, during which a cell was relocated
C13_Witness ==
    /\ sim.width = 2 /\ sim.height >= 2
    /\ \E j, k \in DOMAIN log :
          /\ IsVisit(log[j]) /\ IsVisit(log[k])
          /\ log[j].gen % 2 = 1 /\ log[k].gen % 2 = 0
    /\ Relocations(log) # {}

(* ------------------------------------------------------------------ *)
(* C14  Sand attempt order                                              *)
(* ------------------------------------------------------------------ *)
\* the material seen at (x, y): Wall outside the grid
Seen(s, x, y) ==
    IF x < 0 \/ y < 0 \/ x >= s.width \/ y >= s.height THEN "Wall"
    ELSE s.cells[y * s.width + x].material

\* one candidate of an attempt order: the offset, the kind of relocation, and
\* the material the destination must hold for it to succeed
Cand(dx, dy, kind) ==
    [dx |-> dx, dy |-> dy, kind |-> kind,
     needs |-> IF kind = "swap" THEN "Water" ELSE "Empty"]

Feasible(s, i, order) ==
    {k \in DOMAIN order :
        Seen(s, Col(s, i) + order[k].dx, Row(s, i) + order[k].dy) = order[k].needs}

\* machine m is what dispatching the cell at slot i of s yields when the first
\* feasible candidate of `order` is taken, or nothing is done when there is none
TakesFirst(s, m, i, order) ==
    IF Feasible(s, i, order) = {}
    THEN m.cells = s.cells /\ Relocations(m.log) = {}
    ELSE LET k == CHOOSE j \in Feasible(s, i, order) :
                      \A n \in Feasible(s, i, order) : j <= n
             a == order[k]
             d == (Row(s, i) + a.dy) * s.width + Col(s, i) + a.dx
         IN  /\ Cardinality(Relocations(m.log)) = 1
             /\ \A r \in Relocations(m.log) :
                   m.log[r].kind = a.kind /\ m.log[r].src = i /\ m.log[r].dst = d
             /\ m.cells[d].material = s.cells[i].material
             /\ m.cells[i].material = (IF a.kind = "swap" THEN "Water" ELSE "Empty")
             /\ \A j \in DOMAIN s.cells \ {i, d} : m.cells[j] = s.cells[j]

Draws(l) == Cardinality({k \in DOMAIN l : l[k].kind = "draw"})

SandOrder(f) ==
    <<Cand(0, 1, "move"), Cand(f, 1, "move"), Cand(-f, 1, "move"),
      Cand(0, 1, "swap"), Cand(f, 1, "swap"), Cand(-f, 1, "swap")>>

\* the entries of log l between the dispatch at k and the next visit
Segment(l, k) ==
    LET later == {j \in DOMAIN l : j > k /\ IsVisit(l[j])}
        stop  == IF later = {} THEN Len(l) + 1
                 ELSE CHOOSE j \in later : \A n \in later : j <= n
    IN  SubSeq(l, k + 1, stop - 1)

WaterOrder(surface, f) ==
    IF surface
    THEN <<Cand(0, 1, "move"), Cand(f, 0, "move"), Cand(-f, 0, "move"),
           Cand(f, 1, "move"), Cand(-f, 1, "move")>>
    ELSE <<Cand(0, 1, "move"), Cand(f, 1, "move"), Cand(-f, 1, "move"),
           Cand(f, 0, "move"), Cand(-f, 0, "move")>>

InGrid(s, x, y) == x >= 0 /\ y >= 0 /\ x < s.width /\ y < s.height

\* the eight offsets to a neighbouring slot
Offsets == {o \in {-1, 0, 1} \X {-1, 0, 1} : o # <<0, 0>>}

\* the sets of materials handed to try_move_into
AllowedSets == SUBSET {"Empty", "Wall", "Water"}

Stamped(s, c) == [c EXCEPT !.clock = (s.generation + 1) % U8]

\* r is what the claim says of try_move called at slot i of s with offset o
\* and the cell of that slot
TryMoveContract(s, i, o, r) ==
    LET x == Col(s, i) + o[1]
        y == Row(s, i) + o[2]
        d == y * s.width + x
    IN  /\ r.ok = (InGrid(s, x, y) /\ s.cells[d].material = "Empty")
        /\ r.ok => /\ r.m.cells[d] = Stamped(s, s.cells[i])
                   /\ r.m.cells[i] = Stamped(s, Cell("Empty", 0))
                   /\ \A j \in DOMAIN s.cells \ {i, d} : r.m.cells[j] = s.cells[j]
        /\ ~r.ok => r.m.cells = s.cells
        /\ DOMAIN r.m.cells = DOMAIN s.cells

\* r is what the claim says of try_move_into called at slot i of s with offset
\* o, the cell of that slot and the set `allowed`; the material of a
\* destination outside the grid is read as Wall
TryMoveIntoContract(s, i, o, allowed, r) ==
    LET x == Col(s, i) + o[1]
        y == Row(s, i) + o[2]
        d == y * s.width + x
    IN  /\ r.ok = (Seen(s, x, y) \in allowed)
        /\ r.ok => /\ InGrid(s, x, y)
                   /\ r.m.cells[d] = Stamped(s, s.cells[i])
                   /\ r.m.cells[i] = Stamped(s, s.cells[d])
                   /\ \A j \in DOMAIN s.cells \ {i, d} : r.m.cells[j] = s.cells[j]
        /\ ~r.ok => r.m.cells = s.cells
        /\ DOMAIN r.m.cells = DOMAIN s.cells

Movers(s) == Holds(s, "Sand") \cup Holds(s, "Water")

TryMoveKept ==
    \A i \in Movers(sim) : \A o \in Offsets :
        TryMoveContract(sim, i, o,
            try_move(Machine(sim), Col(sim, i), Row(sim, i), o[1], o[2], sim.cells[i]))

TryMoveIntoKept(sets) ==
    \A i \in Movers(sim) : \A o \in Offsets : \A allowed \in sets :
        TryMoveIntoContract(sim, i, o, allowed,
            try_move_into(Machine(sim), Col(sim, i), Row(sim, i), o[1], o[2],
                          sim.cells[i], allowed))

PrimitivesAsCalled == TryMoveKept /\ TryMoveIntoKept({{"Water"}})

(* ------------------------------------------------------------------ *)
(* C17  Pixel buffer consistency                                        *)
(* ------------------------------------------------------------------ *)
\* C17: in every state between calls (after new, set_cell, paint_circle, clear
\* and step, step(0) included) the pixel buffer has four bytes per slot, the
\* four bytes of every slot are the colour of the cell the slot holds now, and
\* those of an Empty cell are 0, 0, 0, 255.
C17_PixelsFollowGrid ==
    /\ DOMAIN sim.pixels = 0..(4 * sim.width * sim.height - 1)
    /\ \A i \in DOMAIN sim.cells :
          /\ <<sim.pixels[4 * i], sim.pixels[4 * i + 1],
               sim.pixels[4 * i + 2], sim.pixels[4 * i + 3]>>
                 = color_of(sim.cells[i].material, sim.cells[i].ra)
          /\ sim.cells[i].material = "Empty" =>
                /\ sim.pixels[4 * i] = 0 /\ sim.pixels[4 * i + 1] = 0
                /\ sim.pixels[4 * i + 2] = 0 /\ sim.pixels[4 * i + 3] = 255

\* a step of two ticks has just returned, and in its second tick a cell was
\* relocated to a slot that still holds it
C17_Witness ==
    /\ \E k \in DOMAIN log : IsVisit(log[k]) /\ log[k].gen # sim.generation
    /\ \E j \in Relocations(log) :
          /\ log[j].gen = sim.generation
          /\ sim.cells[log[j].dst].material = log[j].mat
          /\ sim.cells[log[j].src].material = "Empty"

(* ------------------------------------------------------------------ *)
(* C18  Generation wraparound                                           *)
(* ------------------------------------------------------------------ *)
\* the tick (1, 2, ...) of a run from a fresh simulation during which entry k
\* of its log l was made: every tick makes n visits
TickOf(l, n, k) ==
    LET before == Cardinality({j \in 1..k : IsVisit(l[j])})
    IN  IF IsVisit(l[k]) THEN ((before - 1) \div n) + 1 ELSE (before \div n) + 1

\* the tick during which slot i was last written before entry k of l; 0 when
\* its last write is the one made before the run
LastWrite(l, n, k, i) ==
    LET w == {j \in 1..(k - 1) : j \in Relocations(l) /\ i \in Arrivals(l[j]) \cup Departures(l[j])}
    IN  IF w = {} THEN 0
        ELSE TickOf(l, n, CHOOSE j \in w : \A h \in w : h <= j)

\* the tick loop of step for a long run: every tick is evaluated before the
\* next is entered, sixteen ticks at a time
RECURSIVE TicksBy(_, _)
TicksBy(m, ticks) ==
    IF ticks = 0 THEN m
    ELSE LET m1 == tick(m)
         IN  IF m1.generation < U8 THEN TicksBy(m1, ticks - 1) ELSE m1

RECURSIVE RunBy(_, _)
RunBy(m, ticks) ==
    IF ticks <= 16 THEN TicksBy(m, ticks)
    ELSE LET a == TicksBy(m, 16)
         IN  IF a.generation < U8 THEN RunBy(a, ticks - 16) ELSE a

\* C18: in a run of WrapHorizon ticks from a simulation no tick has run on,
\* whenever the clock check skips a cell that is not Empty, the cell was
\* written during the tick before or since; a cell that is not Empty and was
\* last written two or more ticks back is dispatched.
C18_WraparoundHarmless ==
    (sim.frame = 0 /\ sim.width * sim.height <= WrapCells) =>
        LET l == RunBy(Machine(sim), WrapHorizon).log
            n == sim.width * sim.height
        IN  \A k \in DOMAIN l :
                (l[k].kind = "skip_clock" /\ l[k].mat # "Empty") =>
                    TickOf(l, n, k) - LastWrite(l, n, k, l[k].src) <= 1

(* ------------------------------------------------------------------ *)
(* C19  The pool check of update_water                                  *)
(* ------------------------------------------------------------------ *)
\* update_water up to the end of its primary attempt sequence, returning there
update_water_primary(m, x, y, cell) ==
    LET v == rand_u32(m)
    IN  IF U32Mod4(v.out) = 0 THEN v.m
        ELSE
        LET down == try_move(v.m, x, y, 0, 1, cell)
        IN  IF down.ok THEN down.m
            ELSE
            LET m1 == got(down.m, x, y, 0, -1)
                is_surface == get(m1, x, y, 0, -1).material = "Empty"
                d == rand_u32(m1)
                f == IF LeftFirst(m.generation, d.out) THEN -1 ELSE 1
            IN  TryEach(d.m, x, y, cell,
                        IF is_surface
                        THEN <<Mv(f, 0), Mv(-f, 0), Mv(f, 1), Mv(-f, 1)>>
                        ELSE <<Mv(f, 1), Mv(-f, 1), Mv(f, 0), Mv(-f, 0)>>, 1).m

\* what a caller can observe of a machine: the grid, the generator, the
\* counters, and the moves and draws made
Observable(m) ==
    [cells |-> m.cells, rng |-> m.rng, generation |-> m.generation,
     frame |-> m.frame, pixels |-> m.pixels, log |-> m.log]

\* a Water cell none of whose five lower and lateral neighbours is Empty and
\* one of whose lower or lateral neighbours is neither Wall nor Water
OutsidePool(s, i) ==
    LET x == Col(s, i)
        y == Row(s, i)
    IN  /\ s.cells[i].material = "Water"
        /\ \A o \in {<<0, 1>>, <<-1, 0>>, <<1, 0>>, <<-1, 1>>, <<1, 1>>} :
              Seen(s, x + o[1], y + o[2]) # "Empty"
        /\ \E o \in {<<0, 1>>, <<-1, 0>>, <<1, 0>>} :
              ~is_pool(Seen(s, x + o[1], y + o[2]))

\* C19: dispatching a Water cell of any reachable grid, in the generation the
\* simulation is in or in the next one, leaves the same grid, generator,
\* counters and sequence of moves and draws as update_water cut off after its
\* primary attempt sequence: the pool check and the final lateral attempts
\* change nothing.
C19_PoolCheckInert ==
    \A i \in Holds(sim, "Water") :
        \A g \in {sim.generation, wrapping_add(sim.generation, 1)} :
            LET m == [Machine(sim) EXCEPT !.generation = g]
                x == Col(sim, i)
                y == Row(sim, i)
            IN  Observable(update_water(m, x, y, sim.cells[i]))
                    = Observable(update_water_primary(m, x, y, sim.cells[i]))

\* a step that dispatched a Water cell outside a pool, which drew twice and
\* stayed where it was, after which nothing else moved
C19_Witness ==
    \E k \in DOMAIN log :
        /\ log[k].kind = "dispatch" /\ log[k].mat = "Water"
        /\ k + 2 \in DOMAIN log
        /\ log[k + 1].kind = "draw" /\ log[k + 2].kind = "draw"
        /\ \A j \in Relocations(log) : j < k
        /\ OutsidePool(sim, log[k].src)

(* ------------------------------------------------------------------ *)
(* C20  Sand is not starved by the clock check                          *)
(* ------------------------------------------------------------------ *)
\* the slot holding, after entries a..b of the log l, the cell that slot p
\* held before them
RECURSIVE Track(_, _, _, _)
Track(l, a, b, p) ==
    IF a > b THEN p
    ELSE LET e == l[a]
             q == CASE e.kind \in {"move", "swap"} /\ e.src = p -> e.dst
                    [] e.kind = "swap" /\ e.dst = p /\ e.src # p -> e.src
                    [] OTHER -> p
         IN  Track(l, a + 1, b, q)

\* the pairs of entries of l in which the clock check skips a cell of material
\* mat in one tick and skips the same cell again in the next tick
SkippedTwice(l, mat) ==
    {p \in (DOMAIN l) \X (DOMAIN l) :
        /\ p[1] < p[2]
        /\ l[p[1]].kind = "skip_clock" /\ l[p[1]].mat = mat
        /\ l[p[2]].kind = "skip_clock" /\ l[p[2]].mat = mat
        /\ l[p[2]].gen = wrapping_add(l[p[1]].gen, 1)
        /\ l[p[2]].src = Track(l, p[1] + 1, p[2] - 1, l[p[1]].src)}

\* C20: in the two ticks that follow any reachable state with no write in
\* between, no Sand cell is skipped by the clock check in both ticks.
C20_SandNotStarved ==
    SkippedTwice(ticks_loop(Machine(sim), 2).log, "Sand") = {}

\* a step of two ticks that skipped a Sand cell by the clock check in its
\* first tick and dispatched the same cell in its second
C20_Witness ==
    \E k1, k2 \in DOMAIN log :
        /\ k1 < k2
        /\ log[k1].kind = "skip_clock" /\ log[k1].mat = "Sand"
        /\ log[k2].kind = "dispatch" /\ log[k2].mat = "Sand"
        /\ log[k2].gen = wrapping_add(log[k1].gen, 1)
        /\ log[k2].src = Track(log, k1 + 1, k2 - 1, log[k1].src)

\* a state whose next two ticks skip one Water cell by the clock check in
\* both: between the two skips a Sand cell swaps with it
WaterSkippedTwice ==
    LET l == ticks_loop(Machine(sim), 2).log
    IN  \E p \in SkippedTwice(l, "Water") :
            \E j \in (p[1] + 1)..(p[2] - 1) :
                /\ l[j].kind = "swap" /\ l[j].mat = "Sand"
                /\ l[j].dst = l[p[1]].src
                /\ l[j].src = l[p[2]].src

====
